---- MODULE Spec2Model ----
(***************************************************************************)
(* A* route search over the Brazil road table (py-search-performance.py).  *)
(*                                                                         *)
(* The tables brazil_cities and roads, calculate_distance, RouteProblem    *)
(* and run_astar_test are translated from the file.  The search engine     *)
(* itself (py_search: Node, AnnotatedProblem, best_first_search) is not    *)
(* part of the file; it is modelled from section 4.2 of the specification. *)
(*                                                                         *)
(* Units.  Coordinates are kept in hundredths of a degree, edge weights in *)
(* km, and every heuristic and f-value in hundredths of a km, rounded      *)
(* down.  Frontier entries with equal f-values are popped in the order     *)
(* they were pushed.  Two entries whose f-values agree only after the      *)
(* rounding (their exact values differ by less than 0.01 km) may be popped *)
(* in either order.                                                        *)
(* City names are written without diacritics.                              *)
(***************************************************************************)
EXTENDS Integers, Sequences, FiniteSets

VARIABLES phase, start, goal, frontier, nodes_expanded, goal_tests, result,
          earlier, hq

vars == <<phase, start, goal, frontier, nodes_expanded, goal_tests, result,
          earlier, hq>>

----------------------------------------------------------------------------
(* The tables *)

brazil_cities ==
    [c \in {"Sao Paulo", "Rio de Janeiro", "Belo Horizonte", "Brasilia",
            "Salvador", "Fortaleza", "Manaus", "Porto Alegre", "Curitiba",
            "Recife", "Belem"} |->
        CASE c = "Sao Paulo"      -> <<-2355, -4663>>
          [] c = "Rio de Janeiro" -> <<-2291, -4321>>
          [] c = "Belo Horizonte" -> <<-1992, -4393>>
          [] c = "Brasilia"       -> <<-1579, -4788>>
          [] c = "Salvador"       -> <<-1297, -3848>>
          [] c = "Fortaleza"      -> <<-373, -3853>>
          [] c = "Manaus"         -> <<-312, -6002>>
          [] c = "Porto Alegre"   -> <<-3003, -5123>>
          [] c = "Curitiba"       -> <<-2543, -4927>>
          [] c = "Recife"         -> <<-805, -3490>>
          [] c = "Belem"          -> <<-146, -4850>>]

roads ==
    [c \in {"Sao Paulo", "Rio de Janeiro", "Belo Horizonte", "Brasilia",
            "Salvador", "Fortaleza", "Manaus", "Porto Alegre", "Curitiba",
            "Recife", "Belem"} |->
        CASE c = "Sao Paulo"      -> << <<"Rio de Janeiro", 430>>, <<"Belo Horizonte", 580>>,
                                        <<"Curitiba", 410>>, <<"Brasilia", 1020>> >>
          [] c = "Rio de Janeiro" -> << <<"Sao Paulo", 430>>, <<"Belo Horizonte", 440>>,
                                        <<"Brasilia", 1170>>, <<"Salvador", 1630>> >>
          [] c = "Belo Horizonte" -> << <<"Sao Paulo", 580>>, <<"Rio de Janeiro", 440>>,
                                        <<"Brasilia", 730>>, <<"Salvador", 1370>> >>
          [] c = "Brasilia"       -> << <<"Sao Paulo", 1020>>, <<"Rio de Janeiro", 1170>>,
                                        <<"Belo Horizonte", 730>>, <<"Salvador", 1440>>,
                                        <<"Fortaleza", 2200>>, <<"Manaus", 3450>> >>
          [] c = "Salvador"       -> << <<"Rio de Janeiro", 1630>>, <<"Belo Horizonte", 1370>>,
                                        <<"Brasilia", 1440>>, <<"Recife", 840>>,
                                        <<"Fortaleza", 1200>> >>
          [] c = "Fortaleza"      -> << <<"Salvador", 1200>>, <<"Brasilia", 2200>>,
                                        <<"Recife", 810>>, <<"Belem", 1400>> >>
          [] c = "Manaus"         -> << <<"Brasilia", 3450>>, <<"Belem", 1300>> >>
          [] c = "Porto Alegre"   -> << <<"Sao Paulo", 1130>>, <<"Curitiba", 710>> >>
          [] c = "Curitiba"       -> << <<"Sao Paulo", 410>>, <<"Porto Alegre", 710>> >>
          [] c = "Recife"         -> << <<"Salvador", 840>>, <<"Fortaleza", 810>> >>
          [] c = "Belem"          -> << <<"Manaus", 1300>>, <<"Fortaleza", 1400>> >>]

(* The city identifiers a caller may pass: every city of the tables and one *)
(* that is in neither table.                                                *)
Inputs == DOMAIN brazil_cities \cup DOMAIN roads \cup {"Unknown"}

----------------------------------------------------------------------------
(* calculate_distance: sqrt(dlat^2 + dlon^2) * 111 *)

KmPerDegree == 111

RECURSIVE SqrtSearch(_, _, _)
SqrtSearch(s, lo, hi) ==
    IF lo = hi THEN lo
    ELSE LET mid == (lo + hi + 1) \div 2
         IN  IF mid * mid <= s THEN SqrtSearch(s, mid, hi)
                               ELSE SqrtSearch(s, lo, mid - 1)

(* floor(sqrt(s)) *)
isqrt(s) == SqrtSearch(s, 0, 46340)

(* floor(k * sqrt(s)) for 0 < k, without leaving 32 bits: with r = isqrt(s), *)
(* (k*r + j)^2 <= k^2 * s  iff  2*k*r*j + j^2 <= k^2 * (s - r^2).            *)
ScaledSqrt(k, s) ==
    LET r == isqrt(s)
        j == CHOOSE x \in 0..(k - 1) :
                /\ 2 * k * r * x + x * x <= k * k * (s - r * r)
                /\ \/ x = k - 1
                   \/ 2 * k * r * (x + 1) + (x + 1) * (x + 1) > k * k * (s - r * r)
    IN  k * r + j

(* k * sqrt(s) is a whole number *)
ScaledSqrtExact(k, s) == isqrt(s) * isqrt(s) = s

SquaredDegrees(city1, city2) ==
    LET lat1 == brazil_cities[city1][1]
        lon1 == brazil_cities[city1][2]
        lat2 == brazil_cities[city2][1]
        lon2 == brazil_cities[city2][2]
    IN  (lat2 - lat1) * (lat2 - lat1) + (lon2 - lon1) * (lon2 - lon1)

(* calculate_distance with the city-block distance in place of the         *)
(* Euclidean one                                                           *)
calculate_distance_manhattan(city1, city2) ==
    IF city1 \notin DOMAIN brazil_cities \/ city2 \notin DOMAIN brazil_cities
    THEN [raised |-> "KeyError", value |-> 0, exact |-> TRUE]
    ELSE LET dlat == brazil_cities[city2][1] - brazil_cities[city1][1]
             dlon == brazil_cities[city2][2] - brazil_cities[city1][2]
             abs(x) == IF x < 0 THEN -x ELSE x
         IN  [raised |-> "no",
              value  |-> KmPerDegree * (abs(dlat) + abs(dlon)),
              exact  |-> TRUE]

(* The outcome of a call: a KeyError when a city is not a key of           *)
(* brazil_cities, else the distance in hundredths of a km (rounded down)   *)
(* and whether that value is exact.                                        *)
calculate_distance(city1, city2) ==
    IF city1 \notin DOMAIN brazil_cities \/ city2 \notin DOMAIN brazil_cities
    THEN [raised |-> "KeyError", value |-> 0, exact |-> TRUE]
    ELSE [raised |-> "no",
          value  |-> ScaledSqrt(KmPerDegree, SquaredDegrees(city1, city2)),
          exact  |-> ScaledSqrtExact(KmPerDegree, SquaredDegrees(city1, city2))]

----------------------------------------------------------------------------
(* Search nodes (py_search Node): state, parent link, action, cumulative   *)
(* cost.                                                                   *)

NoNode == [state |-> "None"]

Node(state, parent, action, node_cost) ==
    [state |-> state, parent |-> parent, action |-> action, node_cost |-> node_cost]

cost(node) == node.node_cost

(* The actions on the parent chain, read from the root *)
RECURSIVE path(_)
path(node) ==
    IF node.parent = NoNode THEN <<>>
    ELSE Append(path(node.parent), node.action)

----------------------------------------------------------------------------
(* RouteProblem *)

(* successors with each child's cost set to the road's distance alone *)
successors_no_accumulate(node) ==
    LET current == node.state
    IN  IF current \in DOMAIN roads
        THEN [i \in 1..Len(roads[current]) |->
                LET city     == roads[current][i][1]
                    distance == roads[current][i][2]
                IN  Node(city, node, <<"drive to", city>>, distance)]
        ELSE <<>>

successors(node) ==
    LET current == node.state
    IN  IF current \in DOMAIN roads
        THEN [i \in 1..Len(roads[current]) |->
                LET city     == roads[current][i][1]
                    distance == roads[current][i][2]
                IN  Node(city, node, <<"drive to", city>>, cost(node) + distance)]
        ELSE <<>>

heuristic(node, goal_state) == calculate_distance(node.state, goal_state)

(* node_value without the cost so far: f(n) = h(n) *)
node_value_greedy(node, goal_state) ==
    LET h == calculate_distance(node.state, goal_state)
    IN  [raised |-> h.raised, value |-> h.value]

(* f(n) = g(n) + h(n), in hundredths of a km; raises what heuristic raises *)
node_value(node, goal_state) ==
    LET h == heuristic(node, goal_state)
    IN  [raised |-> h.raised, value |-> 100 * cost(node) + h.value]

----------------------------------------------------------------------------
(* run_astar_test and the engine it drives *)

Infinity == 999999999

(* The result records, without execution_time (a wall-clock reading) *)
NoResult == [solution_found |-> "none"]

Success(solution, expanded, tests) ==
    [solution_found |-> TRUE,
     path_cost      |-> cost(solution),
     path_length    |-> Len(path(solution)),
     nodes_expanded |-> expanded,
     goal_tests     |-> tests,
     path           |-> path(solution)]

Failure(expanded, tests) ==
    [solution_found |-> FALSE,
     path_cost      |-> Infinity,
     path_length    |-> 0,
     nodes_expanded |-> expanded,
     goal_tests     |-> tests,
     path           |-> <<>>]

(* A frontier entry: a node keyed by its f-value.  The f-value is 100 * g  *)
(* + floor(111 * sqrt(sq)); exact tells that 111 * sqrt(sq) is whole.      *)
Entry(node, goal_state) ==
    [value |-> node_value(node, goal_state).value,
     sq    |-> SquaredDegrees(node.state, goal_state),
     exact |-> heuristic(node, goal_state).exact,
     node  |-> node]

(* The two entries have the same f-value before rounding: the rounded      *)
(* values agree and the heuristic parts are the same number (sqrt(s1) -    *)
(* sqrt(s2) is a nonzero rational only when both roots are whole).         *)
ExactTie(e, o) ==
    /\ e.value = o.value
    /\ \/ e.sq = o.sq
       \/ e.exact /\ o.exact

(* The frontier is kept in push order.  The positions of least f-value *)
Lowest(fr) == {i \in 1..Len(fr) : \A j \in 1..Len(fr) : fr[i].value <= fr[j].value}

(* The positions that may be popped next: of least f-value, and behind no  *)
(* entry pushed earlier with the same f-value (FIFO among ties)            *)
Poppable(fr) == {i \in Lowest(fr) : \A j \in Lowest(fr) : j < i => ~ExactTie(fr[j], fr[i])}

Remove(fr, i) == SubSeq(fr, 1, i - 1) \o SubSeq(fr, i + 1, Len(fr))

Returned == phase \in {"Succeeded", "Failed"}

(* Call with the counters of the previous call carried over *)
Call_keep_counters(start_city, goal_city) ==
    /\ phase \in {"Initialized", "Succeeded", "Failed"}
    /\ start' = start_city
    /\ goal' = goal_city
    /\ UNCHANGED <<nodes_expanded, goal_tests>>
    /\ result' = NoResult
    /\ earlier' = IF Returned /\ start = start_city /\ goal = goal_city
                  THEN result ELSE NoResult
    /\ LET root == Node(start_city, NoNode, <<>>, 0)
       IN  IF node_value(root, goal_city).raised # "no"
           THEN /\ phase' = "Raised"
                /\ frontier' = <<>>
           ELSE /\ phase' = "Running"
                /\ frontier' = <<Entry(root, goal_city)>>
    /\ UNCHANGED hq

(* run_astar_test(start_city, goal_city) up to the seeding of the frontier: *)
(* a fresh problem with zeroed counters, the root pushed with its f-value.  *)
Call(start_city, goal_city) ==
    /\ phase \in {"Initialized", "Succeeded", "Failed"}
    /\ start' = start_city
    /\ goal' = goal_city
    /\ nodes_expanded' = 0
    /\ goal_tests' = 0
    /\ result' = NoResult
    /\ earlier' = IF Returned /\ start = start_city /\ goal = goal_city
                  THEN result ELSE NoResult
    /\ LET root == Node(start_city, NoNode, <<>>, 0)
       IN  IF node_value(root, goal_city).raised # "no"
           THEN /\ phase' = "Raised"
                /\ frontier' = <<>>
           ELSE /\ phase' = "Running"
                /\ frontier' = <<Entry(root, goal_city)>>
    /\ UNCHANGED hq

(* One turn of the engine's loop, and the result record when it ends *)
Loop ==
    /\ phase = "Running"
    /\ UNCHANGED <<start, goal, earlier, hq>>
    /\ IF frontier = <<>>
       THEN /\ phase' = "Failed"
            /\ result' = Failure(nodes_expanded, goal_tests)
            /\ UNCHANGED <<frontier, nodes_expanded, goal_tests>>
       ELSE \E i \in Poppable(frontier) :
            LET e == frontier[i] IN
            /\ goal_tests' = goal_tests + 1
            /\ IF e.node.state = goal
               THEN /\ phase' = "Succeeded"
                    /\ result' = Success(e.node, nodes_expanded, goal_tests + 1)
                    /\ frontier' = Remove(frontier, i)
                    /\ UNCHANGED nodes_expanded
               ELSE /\ nodes_expanded' = nodes_expanded + 1
                    /\ result' = NoResult
                    /\ LET children == successors(e.node)
                       IN  IF \E k \in DOMAIN children :
                                  node_value(children[k], goal).raised # "no"
                           THEN /\ phase' = "Raised"
                                /\ frontier' = Remove(frontier, i)
                           ELSE /\ phase' = "Running"
                                /\ frontier' = Remove(frontier, i) \o
                                       [k \in DOMAIN children |-> Entry(children[k], goal)]

NoQuery == [asked |-> FALSE]

Init ==
    /\ phase = "Initialized"
    /\ start = "None"
    /\ goal = "None"
    /\ frontier = <<>>
    /\ nodes_expanded = 0
    /\ goal_tests = 0
    /\ result = NoResult
    /\ earlier = NoResult
    /\ hq = NoQuery

Next ==
    \/ \E s \in Inputs, g \in Inputs : Call(s, g)
    \/ Loop

Spec == Init /\ [][Next]_vars

(* The heuristic applied to a pair of city identifiers *)
HeuristicCall(cityA, cityB) ==
    /\ hq' = [asked |-> TRUE, a |-> cityA, b |-> cityB,
              out |-> heuristic(Node(cityA, NoNode, <<>>, 0), cityB)]
    /\ UNCHANGED <<phase, start, goal, frontier, nodes_expanded, goal_tests,
                   result, earlier>>

NextHeuristic == \E a \in Inputs, b \in Inputs : HeuristicCall(a, b)

SpecHeuristic == Init /\ [][NextHeuristic]_vars

----------------------------------------------------------------------------
(* Brute-force reference: every simple path of the road table, and the     *)
(* cheapest of them between two cities.                                    *)

Edges ==
    UNION {{<<a, roads[a][i][1], roads[a][i][2]>> : i \in 1..Len(roads[a])} :
           a \in DOMAIN roads}

RoadCities == DOMAIN roads \cup {e[2] : e \in Edges}

RECURSIVE Grow(_, _)
Grow(all, fresh) ==
    IF fresh = {} THEN all
    ELSE LET more == UNION {{[first |-> p.first, last |-> e[2],
                              seen |-> p.seen \cup {e[2]}, total |-> p.total + e[3]] :
                             e \in {x \in Edges : x[1] = p.last /\ x[2] \notin p.seen}} :
                            p \in fresh} \ all
         IN  Grow(all \cup more, more)

SimplePaths ==
    LET trivial == {[first |-> c, last |-> c, seen |-> {c}, total |-> 0] : c \in RoadCities}
    IN  Grow(trivial, trivial)

PathCosts == [a \in Inputs, b \in Inputs |->
                {p.total : p \in {q \in SimplePaths : q.first = a /\ q.last = b}}]

shortest(a, b) ==
    IF PathCosts[a, b] = {} THEN Infinity
    ELSE CHOOSE d \in PathCosts[a, b] : \A o \in PathCosts[a, b] : d <= o

ReachableFrom(a) == {p.last : p \in {q \in SimplePaths : q.first = a}}

Ended == phase \notin {"Initialized", "Running"}

Weight(a, b) == (CHOOSE e \in Edges : e[1] = a /\ e[2] = b)[3]

RECURSIVE SumWeights(_)
SumWeights(cities) ==
    IF Len(cities) < 2 THEN 0
    ELSE Weight(cities[1], cities[2]) + SumWeights(Tail(cities))

----------------------------------------------------------------------------
(* C1: whenever some path from start to goal exists in the road table, a   *)
(* search that has ended has succeeded, and its path_cost is the least     *)
(* total weight over all start-to-goal paths found by enumeration.         *)
C1_OptimalCost ==
    (Ended /\ shortest(start, goal) < Infinity) =>
        /\ phase = "Succeeded"
        /\ result.solution_found = TRUE
        /\ result.path_cost = shortest(start, goal)

C1_Witness ==
    /\ phase = "Succeeded"
    /\ start = "Porto Alegre"
    /\ goal = "Belem"
    /\ result.path_cost = 5670
    /\ result.path_length = 6

(* C2: when goal is not reachable from start, a search that has ended has  *)
(* the frontier empty and returned the failure record, after no more       *)
(* expansions than there are cities reachable from start.                  *)
C2_UnreachableFails ==
    (Ended /\ start # goal /\ shortest(start, goal) = Infinity) =>
        /\ phase = "Failed"
        /\ frontier = <<>>
        /\ result.solution_found = FALSE
        /\ result.path_cost = Infinity
        /\ result.path_length = 0
        /\ result.path = <<>>
        /\ result.nodes_expanded <= Cardinality(ReachableFrom(start))

(* C3: a search whose start or goal is in neither table never ends in a    *)
(* raised error; it returns the failure record with both counters set.     *)
C3_UnknownCityNoError ==
    (Ended /\ (start \notin DOMAIN brazil_cities \cup RoadCities
               \/ goal \notin DOMAIN brazil_cities \cup RoadCities)) =>
        /\ phase # "Raised"
        /\ result.solution_found = FALSE
        /\ result.path_cost = Infinity
        /\ result.path_length = 0
        /\ result.nodes_expanded \in Nat
        /\ result.goal_tests \in Nat

(* C4: heuristic never fails; it is 0 when either city is absent from the  *)
(* coordinate table and the Euclidean distance times 111 otherwise.        *)
C4_HeuristicTotal ==
    hq.asked =>
        /\ hq.out.raised = "no"
        /\ (hq.a \notin DOMAIN brazil_cities \/ hq.b \notin DOMAIN brazil_cities)
              => hq.out.value = 0
        /\ (hq.a \in DOMAIN brazil_cities /\ hq.b \in DOMAIN brazil_cities)
              => hq.out.value = ScaledSqrt(111, SquaredDegrees(hq.a, hq.b))

(* C5: every road that successors() has read has its reverse: a node       *)
(* reached from city A over weight w is in a city whose own road list      *)
(* holds A with weight w.                                                  *)
C5_RoadsSymmetric ==
    \A k \in 1..Len(frontier) :
        frontier[k].node.parent # NoNode =>
            LET A == frontier[k].node.parent.state
                B == frontier[k].node.state
                w == frontier[k].node.node_cost - frontier[k].node.parent.node_cost
            IN  /\ B \in DOMAIN roads
                /\ \E i \in 1..Len(roads[B]) : roads[B][i] = <<A, w>>

(* C6: the heuristic between two cities of the tables is at most the       *)
(* cheapest path cost between them (both in hundredths of a km).           *)
C6_Admissible ==
    (/\ hq.asked
     /\ hq.a \in DOMAIN brazil_cities
     /\ hq.b \in DOMAIN brazil_cities
     /\ shortest(hq.a, hq.b) < Infinity) =>
        /\ hq.out.raised = "no"
        /\ \/ hq.out.value < 100 * shortest(hq.a, hq.b)
           \/ hq.out.value = 100 * shortest(hq.a, hq.b) /\ hq.out.exact

C6_Witness ==
    /\ hq.asked
    /\ hq.a = "Manaus"
    /\ hq.b = "Belem"
    /\ hq.out.value > 129000
    /\ shortest(hq.a, hq.b) = 1300

(* C7: every search call that has left the Running state has ended in      *)
(* Succeeded or in Failed.                                                 *)
C7_EndsSucceededOrFailed ==
    phase \in {"Initialized", "Running", "Succeeded", "Failed"}

C9_RecordConsistent ==
    phase = "Succeeded" =>
        LET p      == result.path
            cities == <<start>> \o [i \in 1..Len(p) |-> p[i][2]]
        IN  /\ \A i \in 1..Len(p) :
                  /\ p[i][1] = "drive to"
                  /\ \E e \in Edges : e[1] = cities[i] /\ e[2] = cities[i + 1]
            /\ cities[Len(cities)] = goal
            /\ result.path_length = Len(p)
            /\ result.path_length = Len(cities) - 1
            /\ result.path_cost = SumWeights(cities)

C9_Witness ==
    /\ phase = "Succeeded"
    /\ start = "Curitiba"
    /\ goal = "Salvador"
    /\ result.path_length = 3
    /\ result.path_cost = 2360

(* C10: the goal test comes before expansion: goal_tests = nodes_expanded  *)
(* + 1 on success and goal_tests = nodes_expanded on failure, and a search *)
(* from a city to itself succeeds at once with an empty path of cost 0.    *)
C10_GoalTestFirst ==
    /\ phase = "Succeeded" => result.goal_tests = result.nodes_expanded + 1
    /\ phase = "Failed" => result.goal_tests = result.nodes_expanded
    /\ (Ended /\ start = goal) =>
          /\ phase = "Succeeded"
          /\ result.goal_tests >= 1
          /\ result.nodes_expanded = 0
          /\ result.path_cost = 0
          /\ result.path_length = 0
          /\ result.path = <<>>

====
